---- MODULE Spec2Model ----
(***************************************************************************)
(* ublk-vram: the address-space composer (VMemory over LOBuffer segments),  *)
(* the block-command dispatch (handle_io_cmd), the ublk server (controller, *)
(* queue workers and their IO tasks) and the segments' RwLocks.             *)
(*                                                                          *)
(* Machine integers are modelled with scaled-down widths: u64/usize values  *)
(* are taken modulo 2^LongBits, u32 values modulo 2^WordBits, i32 is the    *)
(* two's complement reading of WordBits bits, and a sector is               *)
(* 2^SectorShift bytes.  The arithmetic is the code's; only the widths and  *)
(* the sector size are small.                                               *)
(***************************************************************************)
EXTENDS Integers, Sequences, FiniteSets, TLC

VARIABLES phase, vrams, size, dev_size, last, flat,
          ctrl, kdev, queue, task, ncmds, rw, thr

\* the device controller, the kernel's device, the queue workers, their IO
\* tasks and the count of commands the kernel has handed out
svars == <<ctrl, kdev, queue, task, ncmds>>

\* the segments' RwLocks and the queue threads running segment calls
lvars == <<rw, thr>>

vars == <<phase, vrams, size, dev_size, last, flat, svars, lvars>>

(* ------------------------------ bounds ---------------------------------- *)
\* most segments of one address space
MaxSegs == 3
\* most bytes of one address space (sum of the segment lengths)
MaxTotal == 4
\* width of u64 / usize
LongBits == 9
\* width of u32 / i32
WordBits == 3
\* log2 of the sector size (the code shifts by 9)
SectorShift == 1
\* sectors that fit the I/O buffer of a tag (the code asks for 1 MiB)
MaxIoSectors == 1
\* commands the kernel hands out, over all tags
MaxCmds == 2

(* --------------------------- program constants -------------------------- *)
EIO == 5
EINVAL == 22
UBLK_IO_OP_READ == 0
UBLK_IO_OP_WRITE == 1
UBLK_IO_OP_FLUSH == 2
UBLK_IO_OP_DISCARD == UBLK_IO_OP_FLUSH + 1
\* UBLK_IO_RES_ABORT is -ENODEV
ENODEV == 19
UBLK_IO_RES_ABORT == -ENODEV
\* let workers = num_cpus::get().max(2): the fewest queues a device has
NrQueues == 2
\* depth(workers * 64): the tags of one queue, here one per worker
QueueDepth == NrQueues

(* ------------------------------ helpers --------------------------------- *)
RECURSIVE Pow2(_)
Pow2(n) == IF n = 0 THEN 1 ELSE 2 * Pow2(n - 1)

\* the first operand whatever the second is
MinLeft(a, b) == a

Min(a, b) == IF a <= b THEN a ELSE b

\* u64 / usize truncation
U64(x) == x % Pow2(LongBits)

\* u32 truncation
U32(x) == x % Pow2(WordBits)

\* `x as i32`: keep the low WordBits bits, read them as two's complement
AsI32(x) ==
  LET m == x % Pow2(WordBits)
  IN  IF m >= Pow2(WordBits - 1) THEN m - Pow2(WordBits) ELSE m

\* Option<usize>
None == <<>>
Some(n) == <<n>>
is_none(o) == o = <<>>
unwrap(o) == o[1]

Bytes == {0, 1}

RECURSIVE SumSeq(_)
SumSeq(s) == IF s = <<>> THEN 0 ELSE s[1] + SumSeq(Tail(s))

\* the segment-length lists an address space is built from
SegLists ==
  { l \in UNION { [1..n -> 0..MaxTotal] : n \in 0..MaxSegs } : SumSeq(l) <= MaxTotal }

\* the byte patterns a caller writes: pattern k, length n
Pattern(k, n) == [i \in 1..n |-> (i + k) % 2]
Patterns == {0, 1}

\* a destination buffer before a read: n bytes of a value no segment holds
Stale(n) == [i \in 1..n |-> 2]

(* ------------------------------ LOBuffer --------------------------------- *)
\* LOBuffer::new: zeroed payload, base 0.  `assigned` counts offset() calls.
LOBufferNew(sz) ==
  [buffer |-> [i \in 1..sz |-> 0], offset |-> 0, size |-> sz, assigned |-> 0]

\* within with the end of the segment counted in
within_inclusive(self, offset) ==
  offset >= self.offset /\ offset <= self.offset + self.size

within(self, offset) ==
  offset >= self.offset /\ offset < self.offset + self.size

\* remaining that reports the whole segment, not what is left of it
remaining_whole(self, offset) ==
  IF offset >= self.offset /\ offset < self.offset + self.size
  THEN Some(self.size)
  ELSE None

remaining(self, offset) ==
  IF within(self, offset)
  THEN Some(self.size + self.offset - offset)
  ELSE None

LOBufferSize(self) == self.size

\* VBuffer::offset(&mut self, offset)
LOBufferOffset(self, offset) ==
  [self EXCEPT !.offset = offset, !.assigned = @ + 1]

\* read that copies from the start of the payload, not from local_offset
LOBufferReadNoAdd(self, offset, length) ==
  IF ~(offset >= self.offset /\ offset < self.offset + self.size)
  THEN [ok |-> FALSE, data |-> <<>>]
  ELSE IF (offset - self.offset) + length > self.size
       THEN [ok |-> FALSE, data |-> <<>>]
       ELSE [ok |-> TRUE, data |-> [i \in 1..length |-> self.buffer[i]]]

\* a segment read that tests membership only
LOBufferReadNoSpan(self, offset, length) ==
  [ok |-> within(self, offset), data |-> <<>>]

\* VBuffer::read: Err leaves `data` alone; Ok copies length bytes out
LOBufferRead(self, offset, length) ==
  IF ~within(self, offset)
  THEN [ok |-> FALSE, data |-> <<>>]
  ELSE LET local_offset == offset - self.offset
       IN  IF local_offset + length > self.size
           THEN [ok |-> FALSE, data |-> <<>>]
           ELSE [ok |-> TRUE,
                 data |-> [i \in 1..length |-> self.buffer[local_offset + i]]]

\* write that copies to the start of the payload, not to local_offset
LOBufferWriteNoAdd(self, offset, data) ==
  IF ~within(self, offset) \/ (offset - self.offset) + Len(data) > self.size
  THEN [ok |-> FALSE, self |-> self]
  ELSE [ok |-> TRUE,
        self |-> [self EXCEPT !.buffer =
                   [i \in 1..self.size |->
                      IF i <= Len(data) THEN data[i] ELSE self.buffer[i]]]]

\* VBuffer::write: Err leaves the payload alone; Ok copies data in
LOBufferWrite(self, offset, data) ==
  IF ~within(self, offset)
  THEN [ok |-> FALSE, self |-> self]
  ELSE LET local_offset == offset - self.offset
           length == Len(data)
       IN  IF local_offset + length > self.size
           THEN [ok |-> FALSE, self |-> self]
           ELSE [ok |-> TRUE,
                 self |-> [self EXCEPT !.buffer =
                            [i \in 1..self.size |->
                               IF i > local_offset /\ i <= local_offset + length
                               THEN data[i - local_offset]
                               ELSE self.buffer[i]]]]

(* ------------------------------ VMemory ---------------------------------- *)
\* the loop of new with the size added before the base is assigned
RECURSIVE VMemoryNewLoopPost(_, _, _)
VMemoryNewLoopPost(vs, i, sz) ==
  IF i > Len(vs)
  THEN [vrams |-> vs, size |-> sz]
  ELSE LET nsz == U64(sz + LOBufferSize(vs[i]))
       IN  VMemoryNewLoopPost([vs EXCEPT ![i] = LOBufferOffset(vs[i], nsz)],
                              i + 1, nsz)

\* the loop of VMemory::new from segment i on, with the running size
RECURSIVE VMemoryNewLoop(_, _, _)
VMemoryNewLoop(vs, i, sz) ==
  IF i > Len(vs)
  THEN [vrams |-> vs, size |-> sz]
  ELSE LET v == LOBufferOffset(vs[i], sz)
       IN  VMemoryNewLoop([vs EXCEPT ![i] = v], i + 1, U64(sz + LOBufferSize(v)))

VMemoryNew(vs) == VMemoryNewLoop(vs, 1, 0)

\* the part copied to the start of the buffer, the cursor not used
SpliceAtStart(buf, from, part) ==
  [i \in 1..Len(buf) |-> IF i <= Len(part) THEN part[i] ELSE buf[i]]

\* bytes [from+1 .. from+Len(part)] of buf replaced by part
Splice(buf, from, part) ==
  [i \in 1..Len(buf) |->
     IF i > from /\ i <= from + Len(part) THEN part[i - from] ELSE buf[i]]

\* the for loop of VMemory::read from segment i on.  st carries the loop's
\* variables, the caller's buffer, and the segment calls made so far.
RECURSIVE VMemoryReadLoop(_, _, _)
VMemoryReadLoop(vs, i, st) ==
  IF i > Len(vs)
  THEN [st EXCEPT !.ret = "fallthrough"]
  ELSE
    LET local_remaining == remaining(vs[i], st.global_offset)
        q == [st EXCEPT !.queries = @ + 1]
    IN  IF is_none(local_remaining)
        THEN VMemoryReadLoop(vs, i + 1, q)
        ELSE
          LET local_length == Min(st.global_remaining, unwrap(local_remaining))
              r == LOBufferRead(vs[i], st.global_offset, local_length)
              c == [q EXCEPT !.calls = Append(@, [seg |-> i, op |-> "read",
                                                  offset |-> st.global_offset,
                                                  length |-> local_length,
                                                  cursor |-> st.local_offset])]
          IN  IF ~r.ok
              THEN [c EXCEPT !.ret = "error"]
              ELSE
                LET d == [c EXCEPT !.data = Splice(@, st.local_offset, r.data),
                                   !.global_remaining = @ - local_length]
                IN  IF d.global_remaining = 0
                    THEN [d EXCEPT !.ret = "break"]
                    ELSE VMemoryReadLoop(vs, i + 1,
                           [d EXCEPT !.local_offset = @ + local_length,
                                     !.global_offset = U64(@ + local_length)])

LoopInit(vs, offset, length, data) ==
  [local_offset |-> 0, global_offset |-> offset, global_remaining |-> length,
   data |-> data, vrams |-> vs, queries |-> 0, calls |-> <<>>, ret |-> "loop",
   res |-> 0, path |-> "none", bad |-> {}]

\* VMemory::read(offset, length, data): the i32 result, how it returned,
\* and the caller's buffer afterwards
VMemoryRead(vs, offset, length, data) ==
  LET st == VMemoryReadLoop(vs, 1, LoopInit(vs, offset, length, data))
  IN  IF st.ret = "error"
      THEN [st EXCEPT !.res = -EIO, !.path = "eio_segment"]
      ELSE IF st.global_remaining > 0
           THEN [st EXCEPT !.res = -EIO, !.path = "eio_exhausted"]
           ELSE [st EXCEPT !.res = AsI32(length), !.path = "ok"]

\* the for loop of VMemory::write from segment i on; st.vrams is the
\* segment list with the payloads as written so far
RECURSIVE VMemoryWriteLoop(_, _)
VMemoryWriteLoop(i, st) ==
  IF i > Len(st.vrams)
  THEN [st EXCEPT !.ret = "fallthrough"]
  ELSE
    LET local_remaining == remaining(st.vrams[i], st.global_offset)
        q == [st EXCEPT !.queries = @ + 1]
    IN  IF is_none(local_remaining)
        THEN VMemoryWriteLoop(i + 1, q)
        ELSE
          LET local_length == Min(st.global_remaining, unwrap(local_remaining))
              array == SubSeq(st.data, st.local_offset + 1,
                              st.local_offset + local_length)
              r == LOBufferWrite(st.vrams[i], st.global_offset, array)
              c == [q EXCEPT !.calls = Append(@, [seg |-> i, op |-> "write",
                                                  offset |-> st.global_offset,
                                                  length |-> local_length,
                                                  cursor |-> st.local_offset])]
          IN  IF ~r.ok
              THEN [c EXCEPT !.ret = "error"]
              ELSE
                LET d == [c EXCEPT !.vrams[i] = r.self,
                                   !.global_remaining = @ - local_length]
                IN  IF d.global_remaining = 0
                    THEN [d EXCEPT !.ret = "break"]
                    ELSE VMemoryWriteLoop(i + 1,
                           [d EXCEPT !.local_offset = @ + local_length,
                                     !.global_offset = U64(@ + local_length)])

\* VMemory::write(offset, length, data): the i32 result, how it returned,
\* and the segments afterwards
VMemoryWrite(vs, offset, length, data) ==
  LET st == VMemoryWriteLoop(1, LoopInit(vs, offset, length, data))
  IN  IF st.ret = "error"
      THEN [st EXCEPT !.res = -EIO, !.path = "eio_segment"]
      ELSE IF st.global_remaining > 0
           THEN [st EXCEPT !.res = -EIO, !.path = "eio_exhausted"]
           ELSE [st EXCEPT !.res = AsI32(length), !.path = "ok"]

\* VMemory::size
VMemorySize == size

\* VMemory::blocks
VMemoryBlocks == Len(vrams)

(* ------------------------------ dispatch -------------------------------- *)
\* the loop of start_ublk_server that assigns the bases and sums dev_size
RECURSIVE StartUblkServerLoop(_, _, _)
StartUblkServerLoop(vs, i, dsz) ==
  IF i > Len(vs)
  THEN [vrams |-> vs, dev_size |-> dsz]
  ELSE LET v == LOBufferOffset(vs[i], dsz)
       IN  StartUblkServerLoop([vs EXCEPT ![i] = v], i + 1,
                               U64(dsz + LOBufferSize(v)))

\* iod.start_sector << 9, in u64
StartByte(iod) == U64(iod.start_sector * Pow2(SectorShift))

\* (iod.nr_sectors << 9) as usize: the shift is done in u32
LengthBytes(iod) == U32(iod.nr_sectors * Pow2(SectorShift))

\* let mut global_offset = global_limit.min(iod.start_sector << 9)
GlobalOffset(global_limit, iod) == Min(global_limit, StartByte(iod))

\* global_length without the clip against global_limit
GlobalLengthUnclipped(global_limit, iod) == LengthBytes(iod)

\* global_length after the clip against global_limit
GlobalLength(global_limit, iod) ==
  LET global_offset == GlobalOffset(global_limit, iod)
      global_length == LengthBytes(iod)
  IN  IF U64(global_offset + global_length) >= global_limit
      THEN U64(global_limit - global_offset)
      ELSE global_length

\* iod.op_flags & 0xff
OpOf(iod) == iod.op_flags % 256

\* VRamBuffer::read of the server's segments: the device can refuse the
\* transfer (`fails`), which returns Err before any byte is copied
VRamRead(self, offset, length, fails) ==
  IF fails THEN [ok |-> FALSE, data |-> <<>>]
  ELSE LOBufferRead(self, offset, length)

\* VRamBuffer::write of the server's segments
VRamWrite(self, offset, data, fails) ==
  IF fails THEN [ok |-> FALSE, self |-> self]
  ELSE LOBufferWrite(self, offset, data)

\* a segment error that is dropped (`let _ = vram.read(..)`)
FailedIgnored(r) == FALSE

\* if let Err(e) = vram.read(..) / vram.write(..)
Failed(r) == ~r.ok

\* the for loop of handle_io_cmd from segment i on; st.vrams are the segments
\* as written so far, st.data is the task's I/O buffer and st.bad the
\* segments whose device refuses transfers during this command
RECURSIVE HandleIoLoop(_, _, _)
HandleIoLoop(op, i, st) ==
  IF i > Len(st.vrams)
  THEN [st EXCEPT !.ret = "fallthrough"]
  ELSE
    LET vram == st.vrams[i]
        local_remaining == remaining(vram, st.global_offset)
        q == [st EXCEPT !.queries = @ + 1]
    IN  IF is_none(local_remaining)
        THEN HandleIoLoop(op, i + 1, q)
        ELSE
          LET local_length == Min(st.global_remaining, unwrap(local_remaining))
              c == [q EXCEPT !.calls =
                      Append(@, [seg |-> i,
                                 op |-> IF op = UBLK_IO_OP_READ THEN "read"
                                        ELSE "write",
                                 offset |-> st.global_offset,
                                 length |-> local_length,
                                 cursor |-> st.local_offset])]
              rd == VRamRead(vram, st.global_offset, local_length,
                             i \in st.bad)
              wr == VRamWrite(vram, st.global_offset,
                              SubSeq(st.data, st.local_offset + 1,
                                     st.local_offset + local_length),
                              i \in st.bad)
              ok == IF op = UBLK_IO_OP_READ THEN ~Failed(rd) ELSE ~Failed(wr)
              d == IF op = UBLK_IO_OP_READ
                   THEN [c EXCEPT !.data = Splice(@, st.local_offset, rd.data)]
                   ELSE [c EXCEPT !.vrams[i] = wr.self]
              e == [d EXCEPT !.global_remaining = @ - local_length]
          IN  IF ~ok
              THEN [c EXCEPT !.ret = "error"]
              ELSE IF e.global_remaining = 0
                   THEN [e EXCEPT !.ret = "break"]
                   ELSE \* the next iteration, on the state as updated
                        CHOOSE r \in
                          { HandleIoLoop(op, i + 1, next) : next \in
                              { [e EXCEPT
                                   !.local_offset = @ + local_length,
                                   !.global_offset = U64(@ + local_length)] } } :
                          TRUE

\* the length test with zero let through
HasLengthOrZero(global_length) == global_length >= 0

\* a match whose last arm is a no-op like FLUSH
MatchArmLenient(op) ==
  IF op = UBLK_IO_OP_READ \/ op = UBLK_IO_OP_WRITE THEN "read_write"
  ELSE "flush"

\* if global_length > 0 { ... }
HasLength(global_length) == global_length > 0

\* the arm `match op` takes
MatchArm(op) ==
  IF op = UBLK_IO_OP_READ \/ op = UBLK_IO_OP_WRITE THEN "read_write"
  ELSE IF op = UBLK_IO_OP_FLUSH THEN "flush"
  ELSE "other"

\* handle_io_cmd(q, tag, buf, vrams) for the descriptor iod while the
\* devices of the segments in `bad` refuse transfers: the i32 result, how it
\* returned, the segments and the I/O buffer afterwards
HandleIoCmdOn(vs, global_limit, iod, buf, bad) ==
  LET global_offset == GlobalOffset(global_limit, iod)
      global_length == GlobalLength(global_limit, iod)
      op == OpOf(iod)
      st0 == [LoopInit(vs, global_offset, global_length, buf)
                EXCEPT !.bad = bad]
  IN  IF HasLength(global_length)
      THEN IF MatchArm(op) = "read_write"
           THEN \* the loop runs once; st is the state it ends in
                CHOOSE r \in
                  { IF st.ret = "error"
                    THEN [st EXCEPT !.res = -EIO, !.path = "eio_segment"]
                    ELSE IF st.global_remaining > 0
                         THEN [st EXCEPT !.res = -EIO, !.path = "eio_exhausted"]
                         ELSE [st EXCEPT !.res = AsI32(global_length),
                                         !.path = "ok"] :
                    st \in { HandleIoLoop(op, 1, first) : first \in {st0} } } :
                  TRUE
           ELSE IF MatchArm(op) = "flush"
                THEN [st0 EXCEPT !.res = AsI32(global_length), !.path = "ok"]
                ELSE [st0 EXCEPT !.res = -EINVAL, !.path = "einval"]
      ELSE [st0 EXCEPT !.res = AsI32(global_length), !.path = "ok"]

\* handle_io_cmd with every segment's device working
HandleIoCmd(vs, global_limit, iod, buf) ==
  HandleIoCmdOn(vs, global_limit, iod, buf, {})

(* ------------------------- the reference buffer -------------------------- *)
\* the payloads of the segments, in segment order
RECURSIVE Flatten(_)
Flatten(vs) == IF vs = <<>> THEN <<>> ELSE vs[1].buffer \o Flatten(Tail(vs))

\* one monolithic buffer: a write inside it replaces [offset, offset+Len),
\* a write past its end is refused whole
FlatWrite(buf, offset, data) ==
  IF offset + Len(data) <= Len(buf)
  THEN [i \in 1..Len(buf) |->
          IF offset < i /\ i <= offset + Len(data) THEN data[i - offset]
          ELSE buf[i]]
  ELSE buf

FlatRead(buf, offset, length) == SubSeq(buf, offset + 1, offset + length)

(* ------------------------------- state ----------------------------------- *)
\* phase    : "alloc" (segments allocated), "composed" (a VMemory built from
\*            them), "serving" (start_ublk_server running on them)
\* vrams    : the segments (VMemory.vrams / the server's Vec)
\* size     : VMemory.size
\* dev_size : q.dev.tgt.dev_size
\* last     : the call that has just returned, with its arguments and result
\* flat     : one monolithic buffer of `size` bytes that is given the same
\*            in-range writes; a write that was out of range (which that
\*            buffer refuses) reloads it from the segments
NoIod == [start_sector |-> 0, nr_sectors |-> 0, op_flags |-> 0]

NoOp ==
  [kind |-> "none", offset |-> 0, length |-> 0, data |-> <<>>, out |-> <<>>,
   res |-> 0, path |-> "none", queries |-> 0, calls |-> <<>>, iod |-> NoIod,
   bad |-> {}]

\* the queues of the device: nr_queues(workers), workers = max(cpus, 2)
Queues == 0..(NrQueues - 1)

\* start_ublk_server has not been entered
\* (exit is the status the process has exited with, -1 while it runs)
NoCtrl ==
  [pc |-> "init", handler |-> FALSE, signals |-> 0, del_dev |-> 0,
   result |-> "none", exit |-> -1]

\* q_fn has not been called for the queue
NoQueue == [pc |-> "none", f_vec |-> <<>>]

\* an unlocked RwLock: the queues holding it shared, the queues holding it
\* exclusive; `stable` is the payload as the last exclusive holder left it
FreeLock(payload) == [readers |-> {}, writer |-> {}, stable |-> payload]

\* a queue thread that is not inside handle_io_cmd
NoThread ==
  [pc |-> "idle", op |-> "none", calls |-> <<>>, at |-> 0, k |-> 0,
   data |-> <<>>, use_mmap |-> FALSE]

\* nothing of the server is running yet
ServerInit ==
  /\ ctrl = NoCtrl
  /\ kdev = "none"
  /\ queue = [q \in Queues |-> NoQueue]
  /\ task = [q \in Queues |-> <<>>]
  /\ ncmds = 0
  /\ rw = [i \in 1..Len(vrams) |-> FreeLock(vrams[i].buffer)]
  /\ thr = [q \in Queues |-> NoThread]

\* the segments as allocated (LOBuffer::new each), no base assigned yet
Init ==
  /\ phase = "alloc"
  /\ \E l \in SegLists : vrams = [i \in 1..Len(l) |-> LOBufferNew(l[i])]
  /\ size = 0
  /\ dev_size = 0
  /\ last = NoOp
  /\ flat = <<>>
  /\ ServerInit

\* VMemory::new(vrams)
New ==
  /\ phase = "alloc"
  /\ LET m == VMemoryNew(vrams)
     IN  /\ vrams' = m.vrams
         /\ size' = m.size
         /\ flat' = Flatten(m.vrams)
  /\ phase' = "composed"
  /\ last' = [NoOp EXCEPT !.kind = "new"]
  /\ UNCHANGED <<dev_size, svars, lvars>>

\* start_ublk_server(vrams) up to the running target
StartServer ==
  /\ phase = "alloc"
  /\ LET m == StartUblkServerLoop(vrams, 1, 0)
     IN  /\ vrams' = m.vrams
         /\ dev_size' = m.dev_size
  /\ phase' = "serving"
  /\ last' = [NoOp EXCEPT !.kind = "start"]
  /\ UNCHANGED <<size, flat, svars, lvars>>

\* no call is in progress or waiting to be taken by its caller
Idle == last.kind \in {"none", "new", "start"}

\* the spans (offset, length) a caller passes to an address space of sz
\* bytes: every span inside it and every span that ends one byte past it
Spans(sz) ==
  { s \in (0..(sz + 1)) \X (0..(sz + 1)) : s[1] + s[2] <= sz + 1 }

\* a call of VMemory::read(offset, length, data)
Read ==
  /\ phase = "composed"
  /\ Idle
  /\ \E s \in Spans(size) :
       LET offset == s[1]
           length == s[2]
           r == VMemoryRead(vrams, offset, length, Stale(length))
       IN  last' = [NoOp EXCEPT !.kind = "read", !.offset = offset,
                                !.length = length, !.out = r.data,
                                !.res = r.res, !.path = r.path,
                                !.queries = r.queries, !.calls = r.calls]
  /\ UNCHANGED <<phase, vrams, size, dev_size, flat, svars, lvars>>

\* a call of VMemory::write(offset, length, data)
Write ==
  /\ phase = "composed"
  /\ Idle
  /\ \E s \in Spans(size), k \in Patterns :
       LET offset == s[1]
           length == s[2]
           data == Pattern(k, length)
           r == VMemoryWrite(vrams, offset, length, data)
           inrange == offset + length <= size
       IN  /\ vrams' = r.vrams
           /\ last' = [NoOp EXCEPT !.kind = "write", !.offset = offset,
                                   !.length = length, !.data = data,
                                   !.res = r.res, !.path = r.path,
                                   !.queries = r.queries, !.calls = r.calls]
           /\ flat' = IF inrange THEN FlatWrite(flat, offset, data)
                      ELSE Flatten(r.vrams)
  /\ UNCHANGED <<phase, size, dev_size, svars, lvars>>

\* the descriptors the kernel may deliver: sectors inside and past the
\* device, sector numbers and counts whose shift wraps, the four opcodes,
\* an unknown opcode and a FLUSH with a flag bit set above the opcode byte
StartSectors ==
  {0, 1, 2, Pow2(LongBits - SectorShift), Pow2(LongBits) - 1}
NrSectors ==
  {0, 1, 2, Pow2(WordBits - SectorShift), Pow2(WordBits) - 1}
OpFlags ==
  {UBLK_IO_OP_READ, UBLK_IO_OP_WRITE, UBLK_IO_OP_FLUSH, UBLK_IO_OP_DISCARD,
   UBLK_IO_OP_DISCARD + 2, 256 + UBLK_IO_OP_FLUSH}

\* max_io_buf_bytes, the size of each task's IoBuf
MaxIoBufBytes == MaxIoSectors * Pow2(SectorShift)

\* one pass of io_task's loop body: handle_io_cmd on a fetched descriptor.
\* The I/O buffer holds the kernel's data for a WRITE and stale bytes else.
\* The block layer never asks for a READ or WRITE larger than the I/O buffer
\* (handle_io_cmd would slice past the end of the buffer); every other field
\* of the descriptor is unconstrained.
Dispatch ==
  /\ phase = "serving"
  /\ Idle
  /\ \E ss \in StartSectors, ns \in NrSectors, f \in OpFlags, k \in Patterns :
       LET iod == [start_sector |-> ss, nr_sectors |-> ns, op_flags |-> f]
           buf == IF OpOf(iod) = UBLK_IO_OP_WRITE
                  THEN Pattern(k, MaxIoBufBytes) ELSE Stale(MaxIoBufBytes)
           r == HandleIoCmd(vrams, dev_size, iod, buf)
       IN  /\ (OpOf(iod) # UBLK_IO_OP_WRITE => k = 0)
           /\ (OpOf(iod) \in {UBLK_IO_OP_READ, UBLK_IO_OP_WRITE}
                 => ns <= MaxIoSectors)
           /\ vrams' = r.vrams
           /\ last' = [NoOp EXCEPT !.kind = "dispatch", !.iod = iod,
                                   !.offset = GlobalOffset(dev_size, iod),
                                   !.length = GlobalLength(dev_size, iod),
                                   !.data = buf, !.out = r.data,
                                   !.res = r.res, !.path = r.path,
                                   !.queries = r.queries, !.calls = r.calls]
  /\ UNCHANGED <<phase, size, dev_size, flat, svars, lvars>>

\* the call returns to its caller; the record of it is dropped
Return ==
  /\ ~Idle
  /\ last' = NoOp
  /\ UNCHANGED <<phase, vrams, size, dev_size, flat, svars, lvars>>

Next == New \/ StartServer \/ Read \/ Write \/ Dispatch \/ Return

Spec == Init /\ [][Next]_vars

(* ------------------- dispatch on segments that can fail ------------------ *)
\* the segments whose device refuses transfers during one command: none,
\* or one of them
FaultSets(vs) == {{}} \cup {{i} : i \in 1..Len(vs)}

\* handle_io_cmd on a READ or WRITE descriptor while a segment's device may
\* refuse the transfer
DispatchRW ==
  /\ phase = "serving"
  /\ Idle
  /\ \E ss \in StartSectors, ns \in 0..MaxIoSectors,
        op \in {UBLK_IO_OP_READ, UBLK_IO_OP_WRITE}, k \in Patterns,
        bad \in FaultSets(vrams) :
       LET iod == [start_sector |-> ss, nr_sectors |-> ns, op_flags |-> op]
           buf == IF op = UBLK_IO_OP_WRITE
                  THEN Pattern(k, MaxIoBufBytes) ELSE Stale(MaxIoBufBytes)
           r == HandleIoCmdOn(vrams, dev_size, iod, buf, bad)
       IN  /\ (op # UBLK_IO_OP_WRITE => k = 0)
           /\ vrams' = r.vrams
           /\ last' = [NoOp EXCEPT !.kind = "dispatch", !.iod = iod,
                                   !.offset = GlobalOffset(dev_size, iod),
                                   !.length = GlobalLength(dev_size, iod),
                                   !.data = buf, !.out = r.data,
                                   !.res = r.res, !.path = r.path,
                                   !.queries = r.queries, !.calls = r.calls,
                                   !.bad = bad]
  /\ UNCHANGED <<phase, size, dev_size, flat, svars, lvars>>

NextFault == StartServer \/ DispatchRW \/ Return

SpecFault == Init /\ [][NextFault]_vars

(* ------------------- the server: controller, workers, tasks -------------- *)
\* ctrl  : start_ublk_server's position (pc), whether the signal handler
\*         is installed, signals handled, del_dev calls made, the Result
\* kdev  : the kernel's device: "none", "added" (built), "live" (started),
\*         "stopping" (killed: inflight commands are aborted),
\*         "stopped", "deleted"
\* queue : per queue, q_fn's position and the tags it spawned (f_vec)
\* task  : per queue and tag, io_task's locals (cmd_op, res), its position,
\*         the command it has in flight (sqe), the completion delivered to
\*         it (cqe), and counts of what it has done so far
\* ncmds : commands the kernel has handed out
UBLK_U_IO_FETCH_REQ == "FETCH_REQ"
UBLK_U_IO_COMMIT_AND_FETCH_REQ == "COMMIT_AND_FETCH_REQ"

NoSqe == [op |-> "none", res |-> 0]
NoCqe == [res |-> 0, iod |-> NoIod, bad |-> {}]

\* io_task up to its loop: cmd_op = FETCH_REQ, res = 0
TaskNew ==
  [pc |-> "spawned", cmd_op |-> UBLK_U_IO_FETCH_REQ, res |-> 0,
   sqe |-> NoSqe, cqe |-> NoCqe,
   nsub |-> 0, nfetch |-> 0, ndisp |-> 0, ncommit |-> 0]

\* a submission that carries 0, not the task's res
SubmitStale(t) ==
  [t EXCEPT !.pc = "await", !.sqe = [op |-> t.cmd_op, res |-> 0],
            !.nsub = @ + 1,
            !.ncommit = @ + (IF t.cmd_op = UBLK_U_IO_COMMIT_AND_FETCH_REQ
                             THEN 1 ELSE 0)]

\* q.submit_io_cmd(tag, cmd_op, buf, res) up to its await
Submit(t) ==
  [t EXCEPT !.pc = "await", !.sqe = [op |-> t.cmd_op, res |-> t.res],
            !.nsub = @ + 1,
            !.ncommit = @ + (IF t.cmd_op = UBLK_U_IO_COMMIT_AND_FETCH_REQ
                             THEN 1 ELSE 0)]

\* an abort test that never fires
IsAbortNever(res) == FALSE

\* if res == UBLK_IO_RES_ABORT { break; }
IsAbort(res) == res = UBLK_IO_RES_ABORT

\* a loop body that leaves the loop when the dispatch failed
AfterDispatchBail(t, r) ==
  [t EXCEPT !.res = r, !.cmd_op = UBLK_U_IO_COMMIT_AND_FETCH_REQ,
            !.ndisp = @ + 1, !.pc = IF r < 0 THEN "done" ELSE "loop"]

\* a loop body that does not switch cmd_op
AfterDispatchKeepOp(t, r) ==
  [t EXCEPT !.res = r, !.ndisp = @ + 1, !.pc = "loop"]

\* res = handle_io_cmd(..); cmd_op = COMMIT_AND_FETCH_REQ; back to `loop`
AfterDispatch(t, r) ==
  [t EXCEPT !.res = r, !.cmd_op = UBLK_U_IO_COMMIT_AND_FETCH_REQ,
            !.ndisp = @ + 1, !.pc = "loop"]

\* io_task from the point where it was suspended to its next await or its
\* end; r is what handle_io_cmd returns for the delivered descriptor
TaskResume(t, r) ==
  IF t.pc = "spawned" THEN Submit(t)
  ELSE LET res == t.cqe.res
       IN  IF IsAbort(res)
           THEN [t EXCEPT !.res = res, !.pc = "done"]
           ELSE LET u == AfterDispatch([t EXCEPT !.res = res], r)
                IN  IF u.pc = "loop" THEN Submit(u) ELSE u

\* a spawn loop that runs over 0..=queue_depth
SpawnLoopInclusive(depth) == [i \in 1..(depth + 1) |-> i - 1]

\* for tag in 0..dev.dev_info.queue_depth { f_vec.push(exe.spawn(..)) }
SpawnLoop(depth) == [i \in 1..depth |-> i - 1]

\* the tags in f_vec
Spawned(f_vec) == {f_vec[i] : i \in 1..Len(f_vec)}

\* a handler that does not stop the device
KillDevNoop(kd) == kd

\* ctrl.kill_dev(): a started device begins to stop
KillDev(kd) == IF kd = "live" THEN "stopping" ELSE kd

\* futures::future::join_all(f_vec): every task has finished
AllJoined(tasks) == \A tag \in DOMAIN tasks : tasks[tag].pc = "done"

\* ublk_wait_and_handle_ios has nothing left to do: the queue is stopping,
\* no task is ready to run and no command of the queue is in flight
QueueIsDead(kd, tasks) ==
  /\ kd = "stopping"
  /\ \A tag \in DOMAIN tasks : tasks[tag].pc \notin {"spawned", "woken", "await"}

\* the descriptors the kernel hands to the tasks here, each with the segments
\* whose device refuses the transfer: a READ that succeeds, a READ that
\* meets a failing segment, and an opcode handle_io_cmd does not know
TaskCmds ==
  { [res |-> 0, iod |-> [start_sector |-> 0, nr_sectors |-> MaxIoSectors,
                         op_flags |-> UBLK_IO_OP_READ], bad |-> {}],
    [res |-> 0, iod |-> [start_sector |-> 0, nr_sectors |-> MaxIoSectors,
                         op_flags |-> UBLK_IO_OP_READ], bad |-> {1}],
    [res |-> 0, iod |-> [start_sector |-> 0, nr_sectors |-> MaxIoSectors,
                         op_flags |-> UBLK_IO_OP_DISCARD + 2], bad |-> {}] }

\* the completion of an aborted command
AbortCqe == [NoCqe EXCEPT !.res = UBLK_IO_RES_ABORT]

\* start_ublk_server up to the offset loop: build the controller (the
\* device is added), install the signal handler; `?` returns a build error
CtrlBuild ==
  /\ ctrl.pc = "init"
  /\ phase = "alloc"
  /\ \/ /\ ctrl' = [ctrl EXCEPT !.pc = "built", !.handler = TRUE]
        /\ kdev' = "added"
     \/ /\ ctrl' = [ctrl EXCEPT !.pc = "returned", !.result = "err_build"]
        /\ kdev' = kdev
  /\ UNCHANGED <<phase, vrams, size, dev_size, last, flat, queue, task,
                 ncmds, lvars>>

\* the offset loop of start_ublk_server, in its place after the build
ServerOffsets ==
  /\ ctrl.pc = "built"
  /\ StartServer

\* ctrl.run_target(..): the device starts and the queue threads are
\* created, or the call fails and `?` returns its error
RunTarget ==
  /\ ctrl.pc = "built"
  /\ phase = "serving"
  /\ \/ /\ ctrl' = [ctrl EXCEPT !.pc = "running"]
        /\ kdev' = "live"
     \/ /\ ctrl' = [ctrl EXCEPT !.pc = "returned", !.result = "err_run"]
        /\ kdev' = kdev
  /\ UNCHANGED <<phase, vrams, size, dev_size, last, flat, queue, task,
                 ncmds, lvars>>

\* q_fn(qid, ..) up to ublk_wait_and_handle_ios: one task per tag
QSpawn(q) ==
  /\ ctrl.pc = "running"
  /\ queue[q].pc = "none"
  /\ LET f_vec == SpawnLoop(QueueDepth)
     IN  /\ queue' = [queue EXCEPT ![q] = [pc |-> "driving", f_vec |-> f_vec]]
         /\ task' = [task EXCEPT ![q] = [tag \in Spawned(f_vec) |-> TaskNew]]
  /\ UNCHANGED <<phase, vrams, size, dev_size, last, flat, ctrl, kdev,
                 ncmds, lvars>>

\* the task's IoBuf when handle_io_cmd is entered: the kernel's data for a
\* WRITE, stale bytes otherwise
IoBufOf(iod, tag) ==
  IF OpOf(iod) = UBLK_IO_OP_WRITE THEN Pattern(tag, MaxIoBufBytes)
  ELSE Stale(MaxIoBufBytes)

\* the executor of queue q runs a ready task up to its next await
TaskPoll(q, tag) ==
  /\ queue[q].pc = "driving"
  /\ tag \in DOMAIN task[q]
  /\ task[q][tag].pc \in {"spawned", "woken"}
  /\ \E r \in {HandleIoCmdOn(vrams, dev_size, task[q][tag].cqe.iod,
                             IoBufOf(task[q][tag].cqe.iod, tag),
                             task[q][tag].cqe.bad)} :
       \E u \in {TaskResume(task[q][tag], r.res)} :
         /\ task' = [task EXCEPT ![q][tag] = u]
         /\ vrams' = IF u.ndisp > task[q][tag].ndisp THEN r.vrams ELSE vrams
  /\ UNCHANGED <<phase, size, dev_size, last, flat, ctrl, kdev, queue,
                 ncmds, lvars>>

\* the kernel completes the command in flight on a tag with a request,
\* one of cmds
KernelDeliverOf(q, tag, cmds) ==
  /\ kdev = "live"
  /\ ncmds < MaxCmds
  /\ tag \in DOMAIN task[q]
  /\ tag < QueueDepth
  /\ task[q][tag].pc = "await"
  /\ \E c \in cmds :
       task' = [task EXCEPT ![q][tag] =
                  [@ EXCEPT !.pc = "woken", !.cqe = c, !.sqe = NoSqe,
                            !.nfetch = @ + 1]]
  /\ ncmds' = ncmds + 1
  /\ UNCHANGED <<phase, vrams, size, dev_size, last, flat, ctrl, kdev,
                 queue, lvars>>

KernelDeliver(q, tag) == KernelDeliverOf(q, tag, TaskCmds)

\* the kernel aborts the command in flight on a tag of a stopping device
KernelAbort(q, tag) ==
  /\ kdev = "stopping"
  /\ tag \in DOMAIN task[q]
  /\ tag < QueueDepth
  /\ task[q][tag].pc = "await"
  /\ task' = [task EXCEPT ![q][tag] =
                [@ EXCEPT !.pc = "woken", !.cqe = AbortCqe, !.sqe = NoSqe]]
  /\ UNCHANGED <<phase, vrams, size, dev_size, last, flat, ctrl, kdev,
                 queue, ncmds, lvars>>

\* the interrupt signal reaches the installed handler while the device
\* runs: ctrl_sig.kill_dev()
Interrupt ==
  /\ ctrl.handler
  /\ ctrl.signals = 0
  /\ kdev = "live"
  /\ kdev' = KillDev(kdev)
  /\ ctrl' = [ctrl EXCEPT !.signals = @ + 1]
  /\ UNCHANGED <<phase, vrams, size, dev_size, last, flat, queue, task,
                 ncmds, lvars>>

\* ublk_wait_and_handle_ios returns
QDead(q) ==
  /\ queue[q].pc = "driving"
  /\ QueueIsDead(kdev, task[q])
  /\ queue' = [queue EXCEPT ![q].pc = "joining"]
  /\ UNCHANGED <<phase, vrams, size, dev_size, last, flat, ctrl, kdev,
                 task, ncmds, lvars>>

\* smol::block_on(join_all(f_vec)) returns and q_fn with it
QJoin(q) ==
  /\ queue[q].pc = "joining"
  /\ AllJoined(task[q])
  /\ queue' = [queue EXCEPT ![q].pc = "returned"]
  /\ UNCHANGED <<phase, vrams, size, dev_size, last, flat, ctrl, kdev,
                 task, ncmds, lvars>>

\* run_target returns Ok once every queue thread has been joined
RunTargetDone ==
  /\ ctrl.pc = "running"
  /\ \A q \in Queues : queue[q].pc = "returned"
  /\ ctrl' = [ctrl EXCEPT !.pc = "ran"]
  /\ kdev' = "stopped"
  /\ UNCHANGED <<phase, vrams, size, dev_size, last, flat, queue, task,
                 ncmds, lvars>>

\* ctrl.del_dev()?; Ok(())
DelDev ==
  /\ ctrl.pc = "ran"
  /\ ctrl' = [ctrl EXCEPT !.pc = "returned", !.result = "ok",
                          !.del_dev = @ + 1]
  /\ kdev' = "deleted"
  /\ UNCHANGED <<phase, vrams, size, dev_size, last, flat, queue, task,
                 ncmds, lvars>>

\* start2: CLDevice::new or CLBuffer::new fails and `?` returns the error
\* before start_ublk_server is called
ConfigFail ==
  /\ ctrl.pc = "init"
  /\ phase = "alloc"
  /\ ctrl' = [ctrl EXCEPT !.pc = "returned", !.result = "err_config"]
  /\ UNCHANGED <<phase, vrams, size, dev_size, last, flat, kdev, queue, task,
                 ncmds, lvars>>

\* the status of a process whose main returns the Result r: 0 for Ok
ExitStatus(r) == IF r = "ok" THEN 0 ELSE 1

\* main: `let _ = match cli.command { .. }` drops what start1 / start2
\* returned, and main returns Ok(())
MainResult(result) == "ok"

\* main returns and the process exits
MainExit ==
  /\ ctrl.pc = "returned"
  /\ ctrl.exit = -1
  /\ ctrl' = [ctrl EXCEPT !.exit = ExitStatus(MainResult(ctrl.result))]
  /\ UNCHANGED <<phase, vrams, size, dev_size, last, flat, kdev, queue, task,
                 ncmds, lvars>>

\* the tags a queue can hold tasks for (one more than the device has, so
\* that a task spawned past the depth is seen)
Tags == 0..QueueDepth

\* the segment lengths the server runs on in this specification
TaskLayout == <<1, 1>>

InitTask ==
  /\ Init
  /\ Len(vrams) = Len(TaskLayout)
  /\ \A i \in 1..Len(TaskLayout) : vrams[i].size = TaskLayout[i]

NextTask ==
  \/ ConfigFail
  \/ CtrlBuild
  \/ ServerOffsets
  \/ RunTarget
  \/ \E q \in Queues : QSpawn(q)
  \/ \E q \in Queues, tag \in Tags : TaskPoll(q, tag)
  \/ \E q \in Queues, tag \in Tags : KernelDeliver(q, tag)
  \/ \E q \in Queues, tag \in Tags : KernelAbort(q, tag)
  \/ Interrupt
  \/ \E q \in Queues : QDead(q)
  \/ \E q \in Queues : QJoin(q)
  \/ RunTargetDone
  \/ DelDev
  \/ MainExit

SpecTask == InitTask /\ [][NextTask]_vars

\* the executor runs every ready task, the kernel completes every command
\* in flight on a stopping device, and the threads of the worker and of
\* the controller are scheduled
FairTask ==
  /\ WF_vars(\E q \in Queues : QSpawn(q))
  /\ WF_vars(\E q \in Queues, tag \in Tags : TaskPoll(q, tag))
  /\ WF_vars(\E q \in Queues, tag \in Tags : KernelAbort(q, tag))
  /\ WF_vars(\E q \in Queues : QDead(q))
  /\ WF_vars(\E q \in Queues : QJoin(q))
  /\ WF_vars(RunTargetDone)
  /\ WF_vars(DelDev)

SpecTaskFair == InitTask /\ [][NextTask]_vars /\ FairTask

(* ------------------- segment calls under the RwLocks --------------------- *)
\* rw  : per segment, the state of its RwLock (LOBuffer.buffer /
\*       VRamBuffer.buffer)
\* thr : per queue thread, the handle_io_cmd it is in: the segment calls of
\*       the command (calls), the call it is at (at), its position in
\*       that call (pc: "lock" before the lock is taken, "copy" while the
\*       guard is held), bytes copied so far (k), its I/O buffer (data)

\* the lock that guards a segment's payload: the segment's own
LockOf(seg) == seg

\* the lock a segment read takes: LOBuffer::read and VRamBuffer::read take
\* buffer.read(); VRamBuffer::read through mmap takes buffer.write()
ReadLock(use_mmap) == IF use_mmap THEN "write" ELSE "read"

\* every segment call takes the shared lock
LockModeShared(op, use_mmap) == "read"

\* the lock a segment call takes: write() for a write
LockMode(op, use_mmap) == IF op = "write" THEN "write" ELSE ReadLock(use_mmap)

\* RwLock: read() is granted when no one holds it exclusive, write() when
\* no one holds it at all
CanLock(l, mode) ==
  IF mode = "read" THEN l.writer = {}
  ELSE l.writer = {} /\ l.readers = {}

\* the segment call a thread is at
CallOf(t) == t.calls[t.at]

\* handle_io_cmd is entered on a READ or WRITE of one sector: the loop
\* finds the segments of the span; the first segment call is about to lock
LockCall(q) ==
  /\ phase = "serving"
  /\ thr[q].pc = "idle"
  /\ \E ss \in 0..1, op \in {UBLK_IO_OP_READ, UBLK_IO_OP_WRITE},
        use_mmap \in BOOLEAN :
       LET iod == [start_sector |-> ss, nr_sectors |-> MaxIoSectors,
                   op_flags |-> op]
           buf == IF op = UBLK_IO_OP_WRITE
                  THEN Pattern(q, MaxIoBufBytes) ELSE Stale(MaxIoBufBytes)
           calls == HandleIoCmd(vrams, dev_size, iod, buf).calls
       IN  /\ (op = UBLK_IO_OP_WRITE => ~use_mmap)
           /\ calls # <<>>
           /\ thr' = [thr EXCEPT ![q] =
                        [pc |-> "lock",
                         op |-> IF op = UBLK_IO_OP_READ THEN "read"
                                ELSE "write",
                         calls |-> calls, at |-> 1, k |-> 0, data |-> buf,
                         use_mmap |-> use_mmap]]
  /\ UNCHANGED <<phase, vrams, size, dev_size, last, flat, svars, rw>>

\* self.buffer.read() / self.buffer.write() returns the guard
Acquire(q) ==
  /\ thr[q].pc = "lock"
  /\ LET t == thr[q]
         l == LockOf(CallOf(t).seg)
         mode == LockMode(t.op, t.use_mmap)
     IN  /\ CanLock(rw[l], mode)
         /\ rw' = [rw EXCEPT ![l] =
                     IF mode = "read"
                     THEN [@ EXCEPT !.readers = @ \cup {q}]
                     ELSE [@ EXCEPT !.writer = @ \cup {q}]]
         /\ thr' = [thr EXCEPT ![q].pc = "copy", ![q].k = 0]
  /\ UNCHANGED <<phase, vrams, size, dev_size, last, flat, svars>>

\* the copy (copy_nonoverlapping / the OpenCL transfer) moves one more byte
CopyByte(q) ==
  /\ thr[q].pc = "copy"
  /\ thr[q].k < CallOf(thr[q]).length
  /\ LET t == thr[q]
         c == CallOf(t)
         at_seg == (c.offset - vrams[c.seg].offset) + t.k + 1
         at_buf == c.cursor + t.k + 1
     IN  /\ IF t.op = "read"
            THEN /\ thr' = [thr EXCEPT
                              ![q].data[at_buf] = vrams[c.seg].buffer[at_seg],
                              ![q].k = @ + 1]
                 /\ vrams' = vrams
            ELSE /\ vrams' = [vrams EXCEPT
                               ![c.seg].buffer[at_seg] = t.data[at_buf]]
                 /\ thr' = [thr EXCEPT ![q].k = @ + 1]
  /\ UNCHANGED <<phase, size, dev_size, last, flat, svars, rw>>

\* a guard that outlives the segment call: the lock stays as it is
DropGuardLeaked(l, q, payload) == l

\* the guard of thread q is dropped when the segment call returns; after
\* an exclusive hold `stable` is the payload as it is now
DropGuard(l, q, payload) ==
  [readers |-> l.readers \ {q},
   writer |-> l.writer \ {q},
   stable |-> IF q \in l.writer THEN payload ELSE l.stable]

\* the segment call returns and its guard is dropped; the loop goes to its
\* next segment call or handle_io_cmd returns
Release(q) ==
  /\ thr[q].pc = "copy"
  /\ thr[q].k = CallOf(thr[q]).length
  /\ LET t == thr[q]
         c == CallOf(t)
         l == LockOf(c.seg)
     IN  /\ rw' = [rw EXCEPT ![l] = DropGuard(@, q, vrams[l].buffer)]
         /\ thr' = [thr EXCEPT ![q] =
                      IF t.at < Len(t.calls)
                      THEN [t EXCEPT !.at = @ + 1, !.pc = "lock", !.k = 0]
                      ELSE NoThread]
  /\ UNCHANGED <<phase, vrams, size, dev_size, last, flat, svars>>

\* the segment lengths the lock-level specification runs on: the first
\* sector lies in segment 1, the second spans segments 1 and 2
LockLayout == <<3, 1>>

InitLock ==
  /\ Init
  /\ Len(vrams) = Len(LockLayout)
  /\ \A i \in 1..Len(LockLayout) : vrams[i].size = LockLayout[i]

NextLock ==
  \/ StartServer
  \/ \E q \in Queues : LockCall(q)
  \/ \E q \in Queues : Acquire(q)
  \/ \E q \in Queues : CopyByte(q)
  \/ \E q \in Queues : Release(q)

SpecLock == InitLock /\ [][NextLock]_vars

\* a queue thread inside a segment call keeps running (the copy goes on,
\* the call returns), and a thread waiting in read() / write() gets the
\* lock if the lock is free again and again
FairLock ==
  \A q \in Queues :
    /\ SF_vars(Acquire(q))
    /\ WF_vars(CopyByte(q))
    /\ WF_vars(Release(q))

SpecLockFair == InitLock /\ [][NextLock]_vars /\ FairLock

(* ------------------- the address space over its lifetime ----------------- *)
\* the commands of TaskCmds and a WRITE of the sector that spans the
\* segments
LifeCmds ==
  TaskCmds \cup
    { [res |-> 0, iod |-> [start_sector |-> 1, nr_sectors |-> MaxIoSectors,
                           op_flags |-> UBLK_IO_OP_WRITE], bad |-> {}] }

\* the composer's calls and the server from start to exit, on one layout
NextLife ==
  \/ New
  \/ Read
  \/ Write
  \/ Return
  \/ ConfigFail
  \/ CtrlBuild
  \/ ServerOffsets
  \/ RunTarget
  \/ \E q \in Queues : QSpawn(q)
  \/ \E q \in Queues, tag \in Tags : TaskPoll(q, tag)
  \/ \E q \in Queues, tag \in Tags : KernelDeliverOf(q, tag, LifeCmds)
  \/ \E q \in Queues, tag \in Tags : KernelAbort(q, tag)
  \/ Interrupt
  \/ \E q \in Queues : QDead(q)
  \/ \E q \in Queues : QJoin(q)
  \/ RunTargetDone
  \/ DelDev
  \/ MainExit

SpecLife == InitLock /\ [][NextLife]_vars

(* ------------------- the composer on three segments ---------------------- *)
\* segments of 100, 50 and 200 bytes
ExampleLayout == <<100, 50, 200>>

\* the spans read: across the first and the second boundary, inside one
\* segment, and past the end of the address space
ExampleReads == {<<90, 80>>, <<0, 100>>, <<99, 2>>, <<149, 2>>, <<340, 20>>}

\* the spans written: each segment whole, and across both boundaries
ExampleWrites == {<<0, 100>>, <<100, 50>>, <<150, 200>>, <<90, 80>>}

\* the data written at a span: every byte tells its global offset and the
\* pattern k; no byte is 0 (never written) or the stale value of Stale
Marks(k, offset, length) ==
  [i \in 1..length |-> 3 + ((offset + i + 7 * k) % 253)]

InitExample ==
  /\ phase = "alloc"
  /\ vrams = [i \in 1..Len(ExampleLayout) |-> LOBufferNew(ExampleLayout[i])]
  /\ size = 0
  /\ dev_size = 0
  /\ last = NoOp
  /\ flat = <<>>
  /\ ServerInit

\* a call of VMemory::read(offset, length, data) on one of the spans
ExampleRead ==
  /\ phase = "composed"
  /\ Idle
  /\ \E s \in ExampleReads :
       \E r \in {VMemoryRead(vrams, s[1], s[2], Stale(s[2]))} :
         last' = [NoOp EXCEPT !.kind = "read", !.offset = s[1],
                              !.length = s[2], !.out = r.data,
                              !.res = r.res, !.path = r.path,
                              !.queries = r.queries, !.calls = r.calls]
  /\ UNCHANGED <<phase, vrams, size, dev_size, flat, svars, lvars>>

\* a call of VMemory::write(offset, length, data) on one of the spans
ExampleWrite ==
  /\ phase = "composed"
  /\ Idle
  /\ \E s \in ExampleWrites, k \in Patterns :
       \E data \in {Marks(k, s[1], s[2])} :
         \E r \in {VMemoryWrite(vrams, s[1], s[2], data)} :
           /\ vrams' = r.vrams
           /\ last' = [NoOp EXCEPT !.kind = "write", !.offset = s[1],
                                   !.length = s[2], !.data = data,
                                   !.res = r.res, !.path = r.path,
                                   !.queries = r.queries, !.calls = r.calls]
           /\ flat' = FlatWrite(flat, s[1], data)
  /\ UNCHANGED <<phase, size, dev_size, svars, lvars>>

NextExample == New \/ ExampleRead \/ ExampleWrite \/ Return

SpecExample == InitExample /\ [][NextExample]_vars

(* ------------------- one segment call, with any span --------------------- *)
\* vram.read(offset, data) / vram.write(offset, data) is called with any
\* global offset and any slice, whatever remaining() would say of them;
\* no other thread is inside a segment call
SegCall(q) ==
  /\ phase = "serving"
  /\ \A p \in Queues : thr[p].pc = "idle"
  /\ \E seg \in 1..Len(vrams), offset \in 0..(dev_size + 1),
        length \in 0..MaxIoBufBytes, op \in {"read", "write"} :
       thr' = [thr EXCEPT ![q] =
                 [pc |-> "check", op |-> op,
                  calls |-> <<[seg |-> seg, op |-> op, offset |-> offset,
                               length |-> length, cursor |-> 0]>>,
                  at |-> 1, k |-> 0,
                  data |-> IF op = "write" THEN Pattern(q, length)
                           ELSE Stale(length),
                  use_mmap |-> FALSE]]
  /\ UNCHANGED <<phase, vrams, size, dev_size, last, flat, svars, rw>>

\* the two tests at the head of LOBuffer::read / LOBuffer::write: bail!
\* returns the error, otherwise the call goes on to take the lock
SegCheck(q) ==
  /\ thr[q].pc = "check"
  /\ LET t == thr[q]
         c == CallOf(t)
         ok == IF t.op = "read"
               THEN LOBufferRead(vrams[c.seg], c.offset, c.length).ok
               ELSE LOBufferWrite(vrams[c.seg], c.offset, t.data).ok
     IN  thr' = [thr EXCEPT ![q].pc = IF ok THEN "lock" ELSE "failed"]
  /\ UNCHANGED <<phase, vrams, size, dev_size, last, flat, svars, rw>>

\* the caller takes the Err
SegReturn(q) ==
  /\ thr[q].pc = "failed"
  /\ thr' = [thr EXCEPT ![q] = NoThread]
  /\ UNCHANGED <<phase, vrams, size, dev_size, last, flat, svars, rw>>

NextSeg ==
  \/ StartServer
  \/ \E q \in Queues : SegCall(q)
  \/ \E q \in Queues : SegCheck(q)
  \/ \E q \in Queues : Acquire(q)
  \/ \E q \in Queues : CopyByte(q)
  \/ \E q \in Queues : Release(q)
  \/ \E q \in Queues : SegReturn(q)

SpecSeg == InitLock /\ [][NextSeg]_vars


(* ------------------------------- claims ---------------------------------- *)
\* the base a segment must have: the sum of the lengths before it
RECURSIVE SegBase(_, _)
SegBase(vs, i) == IF i <= 1 THEN 0 ELSE SegBase(vs, i - 1) + vs[i - 1].size

TotalSize(vs) == SegBase(vs, Len(vs) + 1)

Built == phase \in {"composed", "serving"}

InRange(op) == op.offset + op.length <= size

\* C1: a write of L bytes at O with O + L <= total_size succeeds, and a read
\* of [O, O+L) made on the segments it leaves returns exactly those bytes.
C1_RoundTrip ==
  (phase = "composed" /\ last.kind = "write" /\ InRange(last)) =>
    LET r == VMemoryRead(vrams, last.offset, last.length, Stale(last.length))
    IN  /\ last.path = "ok"
        /\ r.path = "ok"
        /\ r.data = last.data

\* a write that crosses two segment boundaries has returned
C1_Witness ==
  /\ phase = "composed" /\ last.kind = "write" /\ InRange(last)
  /\ Len(last.calls) = 3
  /\ last.offset > 0

\* C2: the segments hold what one monolithic buffer holds after the same
\* in-range writes, and every in-range read returns what that buffer returns.
C2_FlatBuffer ==
  phase = "composed" =>
    /\ Flatten(vrams) = flat
    /\ (last.kind = "read" /\ InRange(last)) =>
         /\ last.path = "ok"
         /\ last.out = FlatRead(flat, last.offset, last.length)

\* a read across a boundary has returned bytes that earlier writes put there
C2_Witness ==
  /\ phase = "composed" /\ last.kind = "read" /\ InRange(last)
  /\ Len(last.calls) >= 2
  /\ \E i \in 1..Len(last.out) : last.out[i] = 1
  /\ \E i \in 1..Len(last.out) : last.out[i] = 0

\* C3: a composer read or write with O + L > total_size leaves every byte
\* of every segment as it was, and (asking for at least one byte) fails.
C3_NoPartialMutation ==
  [][(last'.kind \in {"read", "write"} /\ last'.offset + last'.length > size)
       => /\ vrams' = vrams
          /\ last'.length > 0 => last'.path # "ok"]_vars

\* C4: total_size is the sum of the lengths; below it exactly one segment
\* reports Some, with segment_length - (o - segment_base); at or above it
\* every segment reports None.
C4_TotalAndMembership ==
  phase = "composed" =>
    /\ size = TotalSize(vrams)
    /\ \A o \in 0..(MaxTotal + 1) :
         LET hits == {i \in 1..Len(vrams) : ~is_none(remaining(vrams[i], o))}
         IN  IF o < size
             THEN /\ Cardinality(hits) = 1
                  /\ \A i \in hits :
                       unwrap(remaining(vrams[i], o))
                         = vrams[i].size - (o - SegBase(vrams, i))
             ELSE hits = {}

\* a composer over three non-empty segments has been built
C4_Witness ==
  /\ phase = "composed" /\ last.kind = "new"
  /\ Len(vrams) = 3
  /\ \A i \in 1..3 : vrams[i].size > 0

\* C5 as stated: after construction every base is the sum of the lengths
\* before it, is assigned once, and the bases are strictly increasing.
C5_StrictlyIncreasing ==
  Built =>
    /\ \A i \in 1..Len(vrams) :
         vrams[i].offset = SegBase(vrams, i) /\ vrams[i].assigned = 1
    /\ \A i, j \in 1..Len(vrams) : i < j => vrams[i].offset < vrams[j].offset

\* C5 amended: after construction every base is the sum of the lengths
\* before it and is assigned once; the bases never decrease, and the base
\* of a later segment is larger exactly when a segment of positive length
\* lies between the two.
C5_ContiguousBases ==
  Built =>
    /\ \A i \in 1..Len(vrams) :
         vrams[i].offset = SegBase(vrams, i) /\ vrams[i].assigned = 1
    /\ \A i, j \in 1..Len(vrams) :
         i < j =>
           /\ vrams[i].offset <= vrams[j].offset
           /\ (vrams[i].offset < vrams[j].offset
                 <=> \E k \in i..(j - 1) : vrams[k].size > 0)

\* three segments, an empty one among them, have had their bases assigned
C5_Witness ==
  /\ Built /\ last.kind \in {"new", "start"}
  /\ Len(vrams) = 3
  /\ vrams[1].size > 0 /\ vrams[2].size = 0 /\ vrams[3].size > 0

\* C6: dispatch uses offset = min(device_size, start_sector * sector) and
\* length = sector_count * sector clipped to device_size - offset, with the
\* products taken without wrap-around, and offset + length <= device_size.
C6_OffsetLength ==
  last.kind = "dispatch" =>
    LET start == last.iod.start_sector * Pow2(SectorShift)
        len == last.iod.nr_sectors * Pow2(SectorShift)
        off == Min(dev_size, start)
        clipped == IF off + len >= dev_size THEN dev_size - off ELSE len
    IN  /\ last.offset = off
        /\ last.length = clipped
        /\ last.offset + last.length <= dev_size

\* C7: a dispatch that succeeds returns the clipped length, which is not
\* negative; one that fails returns a negated error code.
C7_ResultSign ==
  last.kind = "dispatch" =>
    /\ last.path = "ok" => (last.res >= 0 /\ last.res = last.length)
    /\ last.path # "ok" => last.res \in {-EIO, -EINVAL}

\* C8: FLUSH and DISCARD succeed with the clipped length and call no segment.
C8_FlushDiscardSucceed ==
  (last.kind = "dispatch"
     /\ last.iod.op_flags % 256 \in {UBLK_IO_OP_FLUSH, UBLK_IO_OP_DISCARD}) =>
    /\ last.path = "ok"
    /\ last.res = last.length
    /\ last.calls = <<>>

Supported ==
  {UBLK_IO_OP_READ, UBLK_IO_OP_WRITE, UBLK_IO_OP_FLUSH, UBLK_IO_OP_DISCARD}

\* C9 as stated: every command with another opcode returns -EINVAL and
\* calls no segment, whatever its start_sector and sector_count.
C9_UnknownOpAlwaysEinval ==
  (last.kind = "dispatch" /\ last.iod.op_flags % 256 \notin Supported) =>
    /\ last.res = -EINVAL
    /\ last.calls = <<>>

\* C9 amended: a command with another opcode returns -EINVAL when its
\* clipped length is positive and 0 when it is zero; it calls no segment
\* either way.
C9_UnknownOpEinvalIfLength ==
  (last.kind = "dispatch" /\ last.iod.op_flags % 256 \notin Supported) =>
    /\ last.length > 0 => last.res = -EINVAL
    /\ last.length = 0 => last.res = 0
    /\ last.calls = <<>>
    /\ last.queries = 0

\* a command with an unknown opcode and a positive clipped length returned
C9_Witness ==
  /\ last.kind = "dispatch" /\ last.iod.op_flags % 256 \notin Supported
  /\ last.length > 0
  /\ last.res = -EINVAL

\* C10: a command whose clipped length is 0 returns 0 at once: no
\* remaining, read or write is called on any segment.
C10_ZeroLength ==
  (last.kind = "dispatch" /\ GlobalLength(dev_size, last.iod) = 0) =>
    /\ last.res = 0
    /\ last.path = "ok"
    /\ last.queries = 0
    /\ last.calls = <<>>

\* a READ at the end of a non-empty device, clipped to nothing, returned
C10_Witness ==
  /\ last.kind = "dispatch" /\ last.length = 0
  /\ dev_size > 0
  /\ last.iod.op_flags = UBLK_IO_OP_READ
  /\ last.iod.nr_sectors > 0
  /\ last.offset = dev_size


\* ---- C11 ----
\* the segment call c of the last command failed: its segment's device
\* refused it, or its span does not lie inside its segment
CallFailed(c) ==
  \/ c.seg \in last.bad
  \/ c.offset < vrams[c.seg].offset
  \/ c.offset + c.length > vrams[c.seg].offset + vrams[c.seg].size

\* bytes of the last command that its segment calls transferred
RECURSIVE BytesDone(_)
BytesDone(cs) ==
  IF cs = <<>> THEN 0
  ELSE (IF CallFailed(cs[1]) THEN 0 ELSE cs[1].length) + BytesDone(Tail(cs))

IsReadWrite ==
  /\ last.kind = "dispatch"
  /\ OpOf(last.iod) \in {UBLK_IO_OP_READ, UBLK_IO_OP_WRITE}

\* C11: a READ or WRITE returns the number of bytes processed when every
\* segment call succeeded and all bytes were transferred, and returns -EIO
\* when a segment call failed or bytes were left over when the segments
\* ran out; a failed segment call never yields a non-negative result.
C11_ReadWriteResult ==
  IsReadWrite =>
    LET failed == \E j \in 1..Len(last.calls) : CallFailed(last.calls[j])
        left == BytesDone(last.calls) < last.length
    IN  /\ (failed \/ left) => last.res = -EIO
        /\ ~(failed \/ left) =>
             /\ last.res = last.length
             /\ last.res = BytesDone(last.calls)
        /\ failed => last.res < 0

\* a WRITE that spans two segments, the second of which fails, returns -EIO
C11_Witness ==
  /\ IsReadWrite
  /\ OpOf(last.iod) = UBLK_IO_OP_WRITE
  /\ Len(last.calls) = 2
  /\ ~CallFailed(last.calls[1])
  /\ CallFailed(last.calls[2])
  /\ last.res = -EIO


\* ---- the IO tasks, the workers and the controller ----
\* the tag has a task on queue q
Has(q, tag) == tag \in DOMAIN task[q]

\* what handle_io_cmd returns for the descriptor last delivered to task t
DispatchRes(t) ==
  HandleIoCmdOn(vrams, dev_size, t.cqe.iod, Stale(MaxIoBufBytes),
                t.cqe.bad).res

\* task t holds a delivered command that it has not looked at yet
HoldsCommand(t) == t.pc = "woken" /\ t.cqe.res # UBLK_IO_RES_ABORT

\* task t holds a delivered abort that it has not looked at yet
HoldsAbort(t) == t.pc = "woken" /\ t.cqe.res = UBLK_IO_RES_ABORT

\* C12: when the dispatch of a request returns -EIO or -EINVAL, the task
\* does not end and its queue keeps running: the task's next step submits
\* COMMIT_AND_FETCH_REQ with exactly that error and waits for the next
\* command on the same tag; a task only ever ends holding an abort.
C12_ErrorDoesNotStop ==
  /\ [][\A q \in Queues, tag \in Tags :
         ( /\ Has(q, tag)
           /\ HoldsCommand(task[q][tag])
           /\ DispatchRes(task[q][tag]) \in {-EIO, -EINVAL}
           /\ task'[q][tag] # task[q][tag] )
         => /\ task'[q][tag].pc = "await"
            /\ task'[q][tag].sqe =
                 [op |-> UBLK_U_IO_COMMIT_AND_FETCH_REQ,
                  res |-> DispatchRes(task[q][tag])]
            /\ queue'[q].pc = "driving"]_vars
  /\ [](\A q \in Queues, tag \in Tags :
         (Has(q, tag) /\ task[q][tag].pc = "done")
           => task[q][tag].res = UBLK_IO_RES_ABORT)

\* a task that committed -EIO has been handed the next command on its tag
C12_Witness ==
  \E q \in Queues, tag \in Tags :
    /\ Has(q, tag)
    /\ HoldsCommand(task[q][tag])
    /\ task[q][tag].res = -EIO
    /\ task[q][tag].ncommit = 1
    /\ task[q][tag].nfetch = 2

\* C13: the first submission of a task is FETCH_REQ; every later one is
\* COMMIT_AND_FETCH_REQ carrying the result of the dispatch made just
\* before it; a dispatch happens only on a delivered non-abort completion,
\* and every submission after the first follows a dispatch.
C13_Cycle ==
  /\ [](\A q \in Queues, tag \in Tags :
         (Has(q, tag) /\ task[q][tag].pc = "await") =>
           LET t == task[q][tag]
           IN  /\ t.nsub >= 1
               /\ t.nsub = 1 => t.sqe = [op |-> UBLK_U_IO_FETCH_REQ, res |-> 0]
               /\ t.nsub > 1 =>
                    t.sqe = [op |-> UBLK_U_IO_COMMIT_AND_FETCH_REQ,
                             res |-> DispatchRes(t)])
  /\ [][\A q \in Queues, tag \in Tags :
         (Has(q, tag) /\ Has(q, tag)') =>
           LET t == task[q][tag]
               u == task'[q][tag]
           IN  /\ u.ndisp # t.ndisp =>
                    (HoldsCommand(t) /\ u.ndisp = t.ndisp + 1)
               /\ (u.nsub # t.nsub /\ t.nsub >= 1) =>
                    (u.nsub = t.nsub + 1 /\ u.ndisp = t.ndisp + 1)]_vars

\* a task has gone round the cycle twice: two dispatches, the second result
\* in flight with COMMIT_AND_FETCH_REQ
C13_Witness ==
  \E q \in Queues, tag \in Tags :
    /\ Has(q, tag)
    /\ task[q][tag].pc = "await"
    /\ task[q][tag].ndisp = 2
    /\ task[q][tag].nsub = 3
    /\ task[q][tag].sqe.res = -EINVAL

\* C14: a task that is delivered an abort does nothing with it but end: no
\* dispatch, no further submission; an ended task never changes again and
\* has nothing in flight; and no task holds a delivered abort forever
\* (its only step from there being to end, it ends).
C14_AbortIsTerminal ==
  /\ [][\A q \in Queues, tag \in Tags :
         (Has(q, tag) /\ HoldsAbort(task[q][tag])
            /\ task'[q][tag] # task[q][tag])
         => /\ task'[q][tag].pc = "done"
            /\ task'[q][tag].ndisp = task[q][tag].ndisp
            /\ task'[q][tag].nsub = task[q][tag].nsub]_vars
  /\ [][\A q \in Queues, tag \in Tags :
         (Has(q, tag) /\ task[q][tag].pc = "done")
         => task'[q][tag] = task[q][tag]]_vars
  /\ [](\A q \in Queues, tag \in Tags :
         (Has(q, tag) /\ task[q][tag].pc = "done")
           => (task[q][tag].sqe = NoSqe
                 /\ task[q][tag].cqe.res = UBLK_IO_RES_ABORT))
  /\ []<>(\A q \in Queues, tag \in Tags :
           Has(q, tag) => ~HoldsAbort(task[q][tag]))

\* every task of a queue has ended, one of them after two dispatches
C14_Witness ==
  \E q \in Queues :
    /\ queue[q].pc = "driving"
    /\ \A tag \in DOMAIN task[q] : task[q][tag].pc = "done"
    /\ \E tag \in DOMAIN task[q] : task[q][tag].ndisp = 2

\* C15: on one tag at most one command is delivered and not yet committed,
\* and a command is dispatched only when the results of all commands
\* dispatched before it on that tag have been committed.
C15_PerTagOrder ==
  /\ [](\A q \in Queues, tag \in Tags :
         Has(q, tag) =>
           /\ task[q][tag].nfetch - task[q][tag].ncommit \in {0, 1}
           /\ task[q][tag].nfetch - task[q][tag].ndisp \in {0, 1})
  /\ [][\A q \in Queues, tag \in Tags :
         (Has(q, tag) /\ Has(q, tag)'
            /\ task'[q][tag].ndisp # task[q][tag].ndisp)
         => /\ task[q][tag].ncommit = task[q][tag].ndisp
            /\ task'[q][tag].ncommit = task'[q][tag].ndisp]_vars

\* two tags of one queue each hold a command at the same time, one of them
\* its second
C15_Witness ==
  \E q \in Queues, a \in Tags, b \in Tags :
    /\ a # b
    /\ Has(q, a)
    /\ Has(q, b)
    /\ HoldsCommand(task[q][a])
    /\ HoldsCommand(task[q][b])

\* C16: a worker that has spawned its tasks has spawned one for each tag
\* 0 .. queue_depth-1, in that order, each once; a worker that has
\* returned has a stopped queue and all of its tasks have ended.
C16_WorkerTasks ==
  \A q \in Queues :
    /\ queue[q].pc # "none" =>
         /\ Len(queue[q].f_vec) = QueueDepth
         /\ \A i \in 1..Len(queue[q].f_vec) : queue[q].f_vec[i] = i - 1
         /\ DOMAIN task[q] = 0..(QueueDepth - 1)
    /\ queue[q].pc = "returned" =>
         /\ kdev \in {"stopping", "stopped", "deleted"}
         /\ \A tag \in DOMAIN task[q] : task[q][tag].pc = "done"

\* a worker has returned while the other one is still driving its queue
C16_Witness ==
  \E q \in Queues, p \in Queues :
    /\ queue[q].pc = "returned"
    /\ queue[p].pc = "driving"
    /\ \A tag \in 0..(QueueDepth - 1) : task[q][tag].pc = "done"

\* every task has ended and every worker has returned
AllDown ==
  \A q \in Queues :
    /\ queue[q].pc = "returned"
    /\ \A tag \in DOMAIN task[q] : task[q][tag].pc = "done"

\* C19: a handled interrupt signal makes the device stop; from then on
\* every task ends, every worker returns, the run target completes and the
\* device is deleted; the device is deleted only after the run target has
\* completed with all workers returned, and del_dev is called once.
C19_Shutdown ==
  /\ [][ctrl'.signals # ctrl.signals => kdev' = "stopping"]_vars
  /\ (ctrl.signals > 0) ~> (kdev = "deleted" /\ AllDown)
  /\ [][(kdev' = "deleted" /\ kdev # "deleted")
          => (ctrl.pc = "ran" /\ AllDown)]_vars
  /\ [](ctrl.del_dev <= 1)
  /\ [](kdev = "deleted" => ctrl.del_dev = 1)

\* the device has been deleted after an interrupt, tasks having served
\* commands before it
C19_Witness ==
  /\ ctrl.signals = 1
  /\ kdev = "deleted"
  /\ ctrl.del_dev = 1
  /\ AllDown
  /\ ncmds = MaxCmds

\* C20: whenever start_ublk_server has returned after the device was
\* built, the device has been deleted.
C20_DeletedOnExit ==
  (ctrl.pc = "returned" /\ ctrl.result # "err_build") => kdev = "deleted"


\* ---- the segment locks ----
\* thread q holds a guard (it is inside the copy of a segment call)
Copying(q) == thr[q].pc = "copy"

\* the segment thread q's current call is on
SegOf(q) == CallOf(thr[q]).seg

\* the RwLock discipline: a lock is held shared by any number of threads
\* and exclusive by none, or exclusive by one thread and shared by none
LockExclusion ==
  \A s \in 1..Len(rw) :
    \/ rw[s].writer = {}
    \/ (Cardinality(rw[s].writer) = 1 /\ rw[s].readers = {})

\* C17: a segment's lock has any number of shared holders and no exclusive
\* one, or one exclusive holder and no shared one; a thread copying for a
\* segment read holds that segment's lock shared, a thread copying for a
\* segment write holds it exclusive.
C17_SharedReadExclusiveWrite ==
  /\ LockExclusion
  /\ \A q \in Queues :
       Copying(q) =>
         IF thr[q].op = "read"
         THEN q \in rw[SegOf(q)].readers
         ELSE rw[SegOf(q)].writer = {q}

\* C18 (a): a thread that waits for a segment's lock waits because another
\* thread holds the lock of that same segment.
WaitsOnlyOnSameSegment ==
  \A q \in Queues :
    (thr[q].pc = "lock"
       /\ ~CanLock(rw[LockOf(SegOf(q))],
                   LockMode(thr[q].op, thr[q].use_mmap)))
    => \E p \in Queues \ {q} : Copying(p) /\ SegOf(p) = SegOf(q)

\* C18 (b): while a thread copies for a segment read, the bytes it has
\* copied so far are the bytes of the segment as the last finished write
\* left it, and no write to that segment is under way.
ReadsSeeWholeWrites ==
  \A q \in Queues :
    (Copying(q) /\ thr[q].op = "read") =>
      LET c == CallOf(thr[q])
          base == c.offset - vrams[c.seg].offset
      IN  /\ vrams[c.seg].buffer = rw[c.seg].stable
          /\ \A j \in 1..thr[q].k :
               thr[q].data[c.cursor + j] = rw[c.seg].stable[base + j]

\* C18 (c): two threads never copy for writes to the same segment at the
\* same time.
WritesSerialize ==
  \A q \in Queues, p \in Queues :
    (q # p /\ Copying(q) /\ Copying(p)
       /\ thr[q].op = "write" /\ thr[p].op = "write")
    => SegOf(q) # SegOf(p)

\* C18: writers to different segments do not block each other; writers to
\* one segment serialize, and a reader of a segment sees only the segment
\* as it is between writes, never a write in progress.
C18_SegmentWrites ==
  /\ WaitsOnlyOnSameSegment
  /\ ReadsSeeWholeWrites
  /\ WritesSerialize

\* two writers copy at the same time into different segments
C18_Witness ==
  \E q \in Queues, p \in Queues :
    /\ q # p
    /\ Copying(q) /\ thr[q].op = "write" /\ thr[q].k = 1
    /\ Copying(p) /\ thr[p].op = "write" /\ thr[p].k = 1
    /\ SegOf(q) # SegOf(p)

(* C21: configuration errors and device-lifecycle errors are fatal: the     *)
(* process exits with a non-zero status, and after a configuration error    *)
(* no device has been registered.                                           *)
C21_ErrorsAreFatal ==
  /\ (ctrl.exit # -1 /\ ctrl.result # "ok") => ctrl.exit # 0
  /\ (ctrl.result = "err_config") => kdev = "none"

\* the offset of a segment call lies in the segment's membership range
Member(c) ==
  /\ vrams[c.seg].offset <= c.offset
  /\ c.offset < vrams[c.seg].offset + vrams[c.seg].size

\* the span of a segment call lies inside the segment
Fits(c) ==
  /\ Member(c)
  /\ (c.offset - vrams[c.seg].offset) + c.length <= vrams[c.seg].size

\* thread q holds no segment lock
HoldsNoLock(q) ==
  \A s \in 1..Len(rw) : q \notin rw[s].readers /\ q \notin rw[s].writer

(* C22: a segment read or write whose offset is outside the segment's       *)
(* membership range, or whose span is not contained in the segment, fails:  *)
(* it takes no lock and changes no byte of the segment or of the caller's   *)
(* buffer, whatever remaining() says; only calls that fit reach the lock.   *)
C22_SegmentBounds ==
  /\ [](\A q \in Queues :
          /\ thr[q].pc \in {"lock", "copy"} => Fits(CallOf(thr[q]))
          /\ thr[q].pc = "failed" =>
                (~Fits(CallOf(thr[q])) /\ HoldsNoLock(q)))
  /\ [][\A q \in Queues :
          (thr[q].pc = "check" /\ ~Fits(CallOf(thr[q])) /\ thr'[q] # thr[q])
          => /\ thr'[q].pc = "failed"
             /\ thr'[q].data = thr[q].data
             /\ vrams' = vrams
             /\ rw' = rw]_vars

\* a write whose first byte is in the segment and whose last is not
\* (remaining reports fewer bytes than the slice has) has failed, after an
\* earlier write has changed the segment
C22_Witness ==
  \E q \in Queues :
    /\ thr[q].pc = "failed"
    /\ thr[q].op = "write"
    /\ Member(CallOf(thr[q]))
    /\ ~Fits(CallOf(thr[q]))
    /\ unwrap(remaining(vrams[SegOf(q)], CallOf(thr[q]).offset))
         < CallOf(thr[q]).length
    /\ \E i \in 1..vrams[SegOf(q)].size : vrams[SegOf(q)].buffer[i] # 0

\* the read of the example has just returned
ExampleReadDone ==
  /\ last.kind = "read"
  /\ last.offset = 90
  /\ last.length = 80
  /\ Len(vrams) = 3
  /\ Len(vrams[1].buffer) = 100 /\ Len(vrams[2].buffer) = 50

(* C23 as stated: on segments of 100, 50 and 200 bytes a read of 80 bytes   *)
(* at offset 90 yields the last 10 bytes of segment 0 followed by the       *)
(* first 70 bytes of segment 1.                                             *)
C23_Example ==
  ExampleReadDone =>
    /\ \A j \in 1..10 : last.out[j] = vrams[1].buffer[90 + j]
    /\ Len(vrams[2].buffer) >= 70
    /\ \A j \in 1..70 : last.out[10 + j] = vrams[2].buffer[j]

(* C23 as amended: the read yields the last 10 bytes of segment 0, then     *)
(* all 50 bytes of segment 1, then the first 20 bytes of segment 2, from    *)
(* one call to each of the three segments.                                  *)
C23_ExampleThreeSegments ==
  ExampleReadDone =>
    /\ last.path = "ok"
    /\ last.out = SubSeq(vrams[1].buffer, 91, 100) \o vrams[2].buffer
                    \o SubSeq(vrams[3].buffer, 1, 20)
    /\ [i \in 1..Len(last.calls) |->
          <<last.calls[i].seg, last.calls[i].length>>]
         = <<(<<1, 10>>), (<<2, 50>>), (<<3, 20>>)>>

\* the read has returned 80 bytes that all differ and were all written
C23_Witness ==
  /\ ExampleReadDone
  /\ Len(last.out) = 80
  /\ \A i \in 1..80 : last.out[i] \notin {0, 2}
  /\ \A i \in 1..80, j \in 1..80 : i # j => last.out[i] # last.out[j]

\* what construction fixes of an address space: per segment its base, its
\* length and the size of its payload
Structure(vs) ==
  [i \in 1..Len(vs) |-> <<vs[i].offset, vs[i].size, Len(vs[i].buffer)>>]

(* C24: once the address space is built no step (composer read or write,    *)
(* dispatch, abort, teardown) changes the number of segments, a base, a     *)
(* length or the total size; a composer read changes no backing byte and a  *)
(* successful composer write of (O, L) changes only bytes of [O, O+L).      *)
C24_Immutable ==
  [][phase # "alloc" =>
       /\ phase' = phase
       /\ Structure(vrams') = Structure(vrams)
       /\ size' = size
       /\ dev_size' = dev_size
       /\ (last' # last /\ last'.kind = "read") => vrams' = vrams
       /\ (last' # last /\ last'.kind = "write" /\ last'.path = "ok") =>
            \A g \in 1..Len(Flatten(vrams)) :
              (g <= last'.offset \/ g > last'.offset + last'.length)
                => Flatten(vrams')[g] = Flatten(vrams)[g]]_vars

\* the server has gone through dispatch (a WRITE across the segments has
\* changed a byte), the abort of its tasks and the removal of the device
C24_Witness ==
  /\ phase = "serving"
  /\ kdev = "deleted"
  /\ ctrl.signals > 0
  /\ \E i \in 1..Len(vrams) : \E j \in 1..vrams[i].size :
       vrams[i].buffer[j] # 0

\* the request whose splitting `last` records: a composer read or write,
\* or a dispatched READ or WRITE
IsSplit ==
  \/ last.kind \in {"read", "write"}
  \/ IsReadWrite

\* bytes the first n sub-calls of the last request asked for
RECURSIVE Asked(_)
Asked(n) == IF n = 0 THEN 0 ELSE last.calls[n].length + Asked(n - 1)

\* what is left of segment s from the global offset o on
LeftOf(s, o) == vrams[s].offset + vrams[s].size - o

(* C25: in request splitting every sub-call fits its segment and asks for   *)
(* min(bytes left, what is left of the segment) at the current global       *)
(* offset; a segment is called at most once per request, in segment order;  *)
(* the sub-calls of a successful request start at O with cursor 0, each     *)
(* starts where the one before ended in both the address space and the      *)
(* buffer, and together they cover [O, O+L).                                *)
C25_Splitting ==
  IsSplit =>
    LET cs == last.calls
        n == Len(cs)
    IN  /\ \A i \in 1..n :
             LET left == last.length - Asked(i - 1)
                 rest == LeftOf(cs[i].seg, cs[i].offset)
             IN  /\ Fits(cs[i])
                 /\ cs[i].length = IF left <= rest THEN left ELSE rest
        /\ \A i \in 1..(n - 1) : cs[i].seg < cs[i + 1].seg
        /\ last.path = "ok" =>
             /\ n > 0 => (cs[1].offset = last.offset /\ cs[1].cursor = 0)
             /\ \A i \in 1..(n - 1) :
                  /\ cs[i + 1].offset = cs[i].offset + cs[i].length
                  /\ cs[i + 1].cursor = cs[i].cursor + cs[i].length
             /\ Asked(n) = last.length

\* a successful write split over three segments, and a successful
\* dispatch split over two
C25_Witness ==
  /\ IsSplit
  /\ last.path = "ok"
  /\ \/ last.kind = "write" /\ Len(last.calls) = 3
     \/ last.kind = "dispatch" /\ Len(last.calls) = 2
  /\ \A i \in 1..Len(last.calls) : last.calls[i].length > 0

\* dev_size is the sum of the segment lengths and every base is the sum of
\* the lengths before it
DeviceIsAddressSpace ==
  /\ dev_size = TotalSize(vrams)
  /\ \A i \in 1..Len(vrams) : vrams[i].offset = SegBase(vrams, i)

(* C26: on a device whose size is the total of the segments, a READ or      *)
(* WRITE that reaches the splitting loop (clipped length > 0) lies inside   *)
(* [0, total_size): the loop ends with no bytes left and the command never  *)
(* returns the error for running out of segments, whatever start_sector     *)
(* and nr_sectors are.                                                      *)
C26_NoExhaustion ==
  (IsReadWrite /\ DeviceIsAddressSpace /\ last.length > 0) =>
    /\ last.offset + last.length <= TotalSize(vrams)
    /\ last.path # "eio_exhausted"
    /\ Asked(Len(last.calls)) = last.length
    /\ last.path = "ok"

\* a READ or WRITE that began inside the device and asked for more than
\* the device has left was clipped and served
C26_Witness ==
  /\ IsReadWrite
  /\ DeviceIsAddressSpace
  /\ last.length > 0
  /\ last.length < LengthBytes(last.iod)
  /\ last.path = "ok"

\* thread q has copied the last byte of a read that took two segment calls
CrossReadDone(q) ==
  /\ thr[q].op = "read"
  /\ Len(thr[q].calls) = 2
  /\ thr[q].at = 2
  /\ Copying(q)
  /\ thr[q].k = CallOf(thr[q]).length

\* the contents the sector across the segments has between writes: zeroes
\* as allocated, or the data of one whole write
WholeWrites ==
  {[i \in 1..MaxIoBufBytes |-> 0]}
    \cup {Pattern(q, MaxIoBufBytes) : q \in Queues}

(* C27: a read of a span that crosses a segment boundary, made while        *)
(* another queue writes that span, returns the bytes as they were before    *)
(* the write or as they are after it: never new bytes of one segment next   *)
(* to old bytes of the other.                                               *)
C27_CrossSegmentAtomic ==
  \A q \in Queues : CrossReadDone(q) => thr[q].data \in WholeWrites

\* the segment locks thread q holds
Held(q) ==
  { s \in 1..Len(rw) : q \in rw[s].readers \/ q \in rw[s].writer }

\* thread q is inside handle_io_cmd
InDispatch(q) == thr[q].pc # "idle"

====
